---------------------------- MODULE Spec2Model ----------------------------
(***************************************************************************)
(* A model of python-tradier (src/tradier.py): the Session layer (marshal   *)
(* -> request -> status check -> decode), the AsyncClient / SyncClient      *)
(* facade that opens one scoped Session per call, and the per-endpoint      *)
(* decoders.                                                                *)
(*                                                                          *)
(* Representation.  Python and JSON values are tagged records (field t).    *)
(* Strings the code takes apart (dates, times of day) are sequences of      *)
(* one-character strings; strings it only passes along (symbols, keys,      *)
(* states) are TLA+ strings.  A JSON object is a function from its keys.    *)
(* A pandas Timestamp is kept as whole seconds since the epoch: the code's  *)
(* scaling by 1e9 to nanoseconds is exact for every epoch second below      *)
(* 2^53 / 5^9, so nothing is lost by leaving it out.                        *)
(***************************************************************************)
EXTENDS Integers, Sequences, FiniteSets, TLC

VARIABLES
    pc,            \* position of the one call in progress
    call,          \* [via, ep, args] of the call in progress
    opened,        \* Sessions opened by the call (AsyncClient.session)
    closed,        \* times Session.close was called on that Session
    requests,      \* HTTP requests issued by the call
    lateRequests,  \* HTTP requests issued after Session.close
    req,           \* what Session._request was last handed: [path, params]
    resp,          \* the response received
    decodes,       \* times an endpoint decoder ran on a response
    body,          \* how the Session method ended: return / raise
    closeFailed,   \* whether Session.close raised
    outcome        \* what the caller of the call receives

vars == <<pc, call, opened, closed, requests, lateRequests, req, resp,
          decodes, body, closeFailed, outcome>>

(***************************************************************************)
(* Bounds of the model.                                                     *)
(***************************************************************************)
\* longest list of records in a response
MaxRecords == 2

(***************************************************************************)
(* Python values.                                                           *)
(***************************************************************************)
None == [t |-> "None"]
\* a str the code only passes along
PyStr(s) == [t |-> "str", s |-> s]
\* a str the code takes apart, spelled out character by character
PyText(c) == [t |-> "str", c |-> c]
PyTuple(s) == [t |-> "tuple", pair |-> s]
PyInt(n) == [t |-> "int", n |-> n]
PySeq(s) == [t |-> "seq", items |-> s]
PyDate(y, m, d) == [t |-> "date", year |-> y, month |-> m, day |-> d]
PyBool(b) == [t |-> "bool", b |-> b]

Raise(e) == [kind |-> "raise", error |-> e]
Return(v) == [kind |-> "return", value |-> v]
Pending == [kind |-> "pending"]

ValueError == [type |-> "ValueError"]
KeyError(k) == [type |-> "KeyError", key |-> k]

(***************************************************************************)
(* Strings: str(int), int(str), str.split, date.isoformat.                  *)
(***************************************************************************)
Digits == <<"0", "1", "2", "3", "4", "5", "6", "7", "8", "9">>

IsDigit(c) == \E i \in 1..10 : Digits[i] = c

DigitVal(c) == (CHOOSE i \in 1..10 : Digits[i] = c) - 1

\* str(n) for n >= 0
RECURSIVE IntToStr(_)
IntToStr(n) ==
    IF n < 10 THEN <<Digits[n + 1]>>
    ELSE IntToStr(n \div 10) \o <<Digits[(n % 10) + 1]>>

\* n printed in at least w digits, as isoformat prints years, months and days
RECURSIVE ZeroPad(_, _)
ZeroPad(s, w) == IF Len(s) >= w THEN s ELSE ZeroPad(<<"0">> \o s, w)

IsNumeral(s) == Len(s) > 0 /\ \A i \in 1..Len(s) : IsDigit(s[i])

\* int(s) for a string of digits
RECURSIVE StrToInt(_)
StrToInt(s) ==
    IF Len(s) = 0 THEN 0
    ELSE 10 * StrToInt(SubSeq(s, 1, Len(s) - 1)) + DigitVal(s[Len(s)])

\* s.split(sep, maxsplit): at most maxsplit splits, from the left
RECURSIVE Split(_, _, _)
Split(s, sep, maxsplit) ==
    IF maxsplit = 0 \/ ~(\E i \in 1..Len(s) : s[i] = sep) THEN <<s>>
    ELSE LET i == CHOOSE j \in 1..Len(s) :
                      s[j] = sep /\ \A k \in 1..(j - 1) : s[k] # sep
         IN  <<SubSeq(s, 1, i - 1)>>
                 \o Split(SubSeq(s, i + 1, Len(s)), sep, maxsplit - 1)

\* s.split(sep): no limit on the splits
SplitAll(s, sep) == Split(s, sep, Len(s))

\* date.isoformat(): YYYY-MM-DD
IsoFormat(d) ==
    ZeroPad(IntToStr(d.year), 4) \o <<"-">> \o ZeroPad(IntToStr(d.month), 2)
        \o <<"-">> \o ZeroPad(IntToStr(d.day), 2)

\* ','.join(items)
RECURSIVE Join(_)
Join(items) ==
    IF Len(items) = 0 THEN ""
    ELSE IF Len(items) = 1 THEN items[1]
    ELSE items[1] \o "," \o Join(Tail(items))

convert_datetime(datetime) ==
    IF datetime.t = "str" THEN datetime ELSE PyText(IsoFormat(datetime))

\* variant: the item is handed on as it is
ensure_list_keeps_item(item) == item

\* a list is a Sequence, a dict (one bare record) is not
ensure_list(item) ==
    IF item.t = "list" THEN item ELSE [t |-> "list", l |-> <<item>>]

(***************************************************************************)
(* Parameter marshalling: what each Session method hands to _request, or    *)
(* the error it raises before the request.                                  *)
(***************************************************************************)
Request(path, params) == [kind |-> "request", path |-> path, params |-> params]

Pair(k, v) == PyTuple(<<PyStr(k), v>>)

\* x and f(x): None (the only falsy argument the model draws) stays None
AndConvert(x) == IF x = None THEN None ELSE convert_datetime(x)

AndJoin(x) == IF x = None THEN None ELSE PyStr(Join(x.items))

\* [(k, v) for k, v in candidates if v is not None]
RECURSIVE NotNone(_)
NotNone(candidates) ==
    IF Len(candidates) = 0 THEN <<>>
    ELSE IF candidates[1][2] = None THEN NotNone(Tail(candidates))
    ELSE <<Pair(candidates[1][1], candidates[1][2])>> \o NotNone(Tail(candidates))

\* params=None is kept as the empty list: the transport sends no query for either
quotes_request(args) ==
    Request("markets/quotes?symbols=" \o Join(args.symbols), <<>>)

timesales_request(args) ==
    Request("markets/timesales",
            NotNone(<< <<"symbol", args.symbol>>,
                       <<"interval", args.interval>>,
                       <<"session_filter", args.session_filter>>,
                       <<"start", AndConvert(args.start)>>,
                       <<"end", AndConvert(args.end)>> >>))

option_chain_request(args) ==
    Request("markets/options/chains",
            << Pair("symbol", args.symbol),
               Pair("expiration", convert_datetime(args.expiration)) >>)

option_strikes_request(args) ==
    Request("markets/options/strikes",
            << Pair("symbol", args.symbol),
               Pair("expiration", convert_datetime(args.expiration)) >>)

option_expirations_request(args) ==
    Request("markets/options/expirations?symbol=" \o args.symbol.s, <<>>)

historical_pricing_request(args) ==
    Request("markets/history",
            NotNone(<< <<"symbol", args.symbol>>,
                       <<"interval", args.interval>>,
                       <<"start", AndConvert(args.start)>>,
                       <<"end", AndConvert(args.end)>> >>))

clock_request(args) == Request("markets/clock", <<>>)

\* variant: date.split('-', 1)
calendar_split_once(date) == Split(date.c, "-", 1)

\* date.split('-', 2)
calendar_split(date) == Split(date.c, "-", 2)

\* the (year, month) the isinstance chain of Session.calendar derives
calendar_year_month(date) ==
    CASE date.t = "date" ->
           <<PyText(IntToStr(date.year)), PyText(IntToStr(date.month))>>
      [] date.t = "str" ->
           LET ym == calendar_split(date)
           IN  <<PyText(ym[1]), IF Len(ym) = 1 THEN None ELSE PyText(ym[2])>>
      [] date.t = "seq" ->
           <<PyText(IntToStr(date.items[1])),
             IF Len(date.items) = 1 THEN None ELSE PyText(IntToStr(date.items[2]))>>
      [] date.t = "int" -> <<PyText(IntToStr(date.n)), None>>
      [] date.t = "None" -> <<None, None>>

calendar_request(args) ==
    LET ym == calendar_year_month(args.date)
    IN  Request("markets/calendar",
                NotNone(<< <<"year", ym[1]>>, <<"month", ym[2]>> >>))

\* params += ('indexes', 'true'): list += tuple extends the list by the
\* tuple's two items, each a bare str
search_add_indexes(params) == params \o <<PyStr("indexes"), PyStr("true")>>

search_request(args) ==
    LET params == <<Pair("q", args.query)>>
    IN  Request("markets/search",
                IF args.indexes = PyBool(TRUE) THEN search_add_indexes(params)
                ELSE params)

\* variant: the empty params list is let through
lookup_never_rejects(params) == FALSE

\* if not params
lookup_rejects(params) == Len(params) = 0

lookup_request(args) ==
    LET params == NotNone(<< <<"q", args.symbol>>,
                             <<"exchanges", AndJoin(args.exchanges)>>,
                             <<"types", AndJoin(args.types)>> >>)
    IN  IF lookup_rejects(params) THEN Raise(ValueError)
        ELSE Request("markets/lookup", params)

Endpoints ==
    {"quotes", "timesales", "option_chain", "option_strikes",
     "option_expirations", "historical_pricing", "clock", "calendar", "search",
     "lookup"}

MarshalOf(ep, args) ==
    CASE ep = "quotes" -> quotes_request(args)
      [] ep = "timesales" -> timesales_request(args)
      [] ep = "option_chain" -> option_chain_request(args)
      [] ep = "option_strikes" -> option_strikes_request(args)
      [] ep = "option_expirations" -> option_expirations_request(args)
      [] ep = "historical_pricing" -> historical_pricing_request(args)
      [] ep = "clock" -> clock_request(args)
      [] ep = "calendar" -> calendar_request(args)
      [] ep = "search" -> search_request(args)
      [] ep = "lookup" -> lookup_request(args)

(***************************************************************************)
(* JSON bodies and the pandas operations the decoders use.                  *)
(***************************************************************************)
JObj(f) == [t |-> "dict", d |-> f]
JList(s) == [t |-> "list", l |-> s]
JNum(n) == [t |-> "int", n |-> n]
EmptyDict == [k \in {} |-> None]
\* a body that is not JSON
Text(s) == [t |-> "text", raw |-> s]

NaN == [t |-> "NaN"]
NaT == [t |-> "NaT"]

\* pd.isna
IsNa(v) == v.t \in {"None", "NaN"}

\* obj.get(key, None)
Get(obj, key) == IF key \in DOMAIN obj.d THEN obj.d[key] ELSE None

\* obj[key]
Item(obj, key) ==
    IF key \in DOMAIN obj.d THEN Return(obj.d[key]) ELSE Raise(KeyError(key))

\* pd.to_datetime of an epoch count: s whole seconds and ns nanoseconds
EpochTimestamp(s, ns) == [t |-> "Timestamp", epoch |-> s, ns |-> ns]

\* pd.to_datetime of an ISO date string: midnight of that calendar day
DateTimestamp(v) ==
    IF IsNa(v) THEN NaT
    ELSE LET p == SplitAll(v.c, "-")
         IN  [t |-> "Timestamp", year |-> StrToInt(p[1]),
              month |-> StrToInt(p[2]), day |-> StrToInt(p[3])]

\* pd.to_datetime(v * 1e6): v counts milliseconds
MillisTimestamp(v) ==
    IF IsNa(v) THEN NaT
    ELSE EpochTimestamp(v.n \div 1000, (v.n % 1000) * 1000000)

\* pd.to_datetime(v * 1e9): v counts seconds
SecondsTimestamp(v) == IF IsNa(v) THEN NaT ELSE EpochTimestamp(v.n, 0)

Keys(records) == UNION {DOMAIN records[i].d : i \in 1..Len(records)}

\* pd.DataFrame(data): one row per dict of the list, a column per key, NaN
\* where a dict lacks the key; a bare dict of scalars is refused
DataFrame(data) ==
    IF data.t # "list" THEN Raise(ValueError)
    ELSE Return(
           [t |-> "DataFrame",
            index_name |-> "",
            index |-> [i \in 1..Len(data.l) |-> JNum(i - 1)],
            columns |-> Keys(data.l),
            rows |-> [i \in 1..Len(data.l) |->
                        [c \in Keys(data.l) |->
                           IF c \in DOMAIN data.l[i].d THEN data.l[i].d[c]
                           ELSE NaN]]])

\* frame.set_index([key], inplace=True)
set_index(frame, key) ==
    IF key \notin frame.columns THEN Raise(KeyError(key))
    ELSE Return(
           [t |-> "DataFrame",
            index_name |-> key,
            index |-> [i \in 1..Len(frame.rows) |-> frame.rows[i][key]],
            columns |-> frame.columns \ {key},
            rows |-> [i \in 1..Len(frame.rows) |->
                        [c \in frame.columns \ {key} |-> frame.rows[i][c]]]])

\* dt.time(*map(int, s.split(':'))): HH, HH:MM or HH:MM:SS
ParseTime(s) ==
    LET p == SplitAll(s, ":")
    IN  [t |-> "time",
         hour |-> StrToInt(p[1]),
         minute |-> IF Len(p) >= 2 THEN StrToInt(p[2]) ELSE 0,
         second |-> IF Len(p) >= 3 THEN StrToInt(p[3]) ELSE 0]

from_iso_time(v) == IF IsNa(v) THEN v ELSE ParseTime(v.c)

\* the conversions the decoders apply to a column or to a Series
Converted(how, v) ==
    CASE how = "millis" -> MillisTimestamp(v)
      [] how = "seconds" -> SecondsTimestamp(v)
      [] how = "date" -> DateTimestamp(v)
      [] how = "time_range" ->
           IF IsNa(v) THEN v
           ELSE [t |-> "TimeRange",
                 start |-> from_iso_time(v.d["start"]),
                 end |-> from_iso_time(v.d["end"])]
      [] how = "same" -> v

\* frame[col] = how(frame[src]) where src is a column of the frame
Assign(frame, col, src, how) ==
    [frame EXCEPT
       !.columns = @ \cup {col},
       !.rows = [i \in 1..Len(frame.rows) |->
                   [c \in frame.columns \cup {col} |->
                      IF c = col THEN Converted(how, frame.rows[i][src])
                      ELSE frame.rows[i][c]]]]

\* if col in frame: frame[col] = how(frame[col])
AssignIfPresent(frame, col, how) ==
    IF col \in frame.columns THEN Assign(frame, col, col, how) ELSE frame

\* frame.drop(col, 1, inplace=True)
Drop(frame, col) ==
    [frame EXCEPT
       !.columns = @ \ {col},
       !.rows = [i \in 1..Len(frame.rows) |->
                   [c \in frame.columns \ {col} |-> frame.rows[i][c]]]]

\* pd.Series(how(data), name=name): a list gives its items, a scalar one item
Series(data, name, how) ==
    [t |-> "Series", name |-> name,
     values |-> IF data.t = "list"
                THEN [i \in 1..Len(data.l) |-> Converted(how, data.l[i])]
                ELSE <<Converted(how, data)>>]

(***************************************************************************)
(* Endpoint decoders: the part of each Session method after _request.       *)
(***************************************************************************)
quotes_dates(frame) ==
    AssignIfPresent(
        AssignIfPresent(
            AssignIfPresent(
                AssignIfPresent(frame, "trade_date", "millis"),
                "bid_date", "millis"),
            "ask_date", "millis"),
        "expiration_date", "date")

quotes_decode(json) ==
    LET response == Get(json, "quotes")
        quote == Item(response, "quote")
        made == DataFrame(ensure_list(quote.value))
        frame == set_index(made.value, "symbol")
    IN  IF response = None THEN Return(None)
        ELSE IF quote.kind = "raise" THEN quote
        ELSE IF made.kind = "raise" THEN made
        ELSE IF frame.kind = "raise" THEN frame
        ELSE Return(quotes_dates(frame.value))

timesales_decode(json) ==
    LET response == Get(json, "series")
        data == Item(response, "data")
        made == DataFrame(ensure_list(data.value))
    IN  IF response = None THEN Return(None)
        ELSE IF data.kind = "raise" THEN data
        ELSE IF made.kind = "raise" THEN made
        ELSE IF "timestamp" \notin made.value.columns
        THEN Raise(KeyError("timestamp"))
        ELSE set_index(
               Drop(Assign(made.value, "time", "timestamp", "seconds"),
                    "timestamp"),
               "time")

option_chain_decode(json) ==
    LET response == Get(json, "options")
        option == Item(response, "option")
        made == DataFrame(ensure_list(option.value))
    IN  IF response = None THEN Return(None)
        ELSE IF option.kind = "raise" THEN option
        ELSE IF made.kind = "raise" THEN made
        ELSE set_index(made.value, "symbol")

option_strikes_decode(json) ==
    LET response == Get(json, "strikes")
        strike == Item(response, "strike")
    IN  IF response = None THEN Return(None)
        ELSE IF strike.kind = "raise" THEN strike
        ELSE Return(Series(strike.value, "strikes", "same"))

option_expirations_decode(json) ==
    LET response == Get(json, "expirations")
        date == Item(response, "date")
    IN  IF response = None THEN Return(None)
        ELSE IF date.kind = "raise" THEN date
        ELSE Return(Series(date.value, "date", "date"))

historical_pricing_decode(json) ==
    LET response == Get(json, "history")
        day == Item(response, "day")
        made == DataFrame(ensure_list(day.value))
    IN  IF response = None THEN Return(None)
        ELSE IF day.kind = "raise" THEN day
        ELSE IF made.kind = "raise" THEN made
        ELSE IF "date" \notin made.value.columns THEN Raise(KeyError("date"))
        ELSE set_index(Assign(made.value, "date", "date", "date"), "date")

SecondsPerDay == 86400

\* a < b on Timestamps
Before(a, b) == a.epoch < b.epoch \/ (a.epoch = b.epoch /\ a.ns < b.ns)

\* date.replace(hour=, minute=, second=, microsecond=0): the calendar day is
\* kept, and so is the part of the time below a microsecond
Replace(date, time) ==
    EpochTimestamp(
        (date.epoch \div SecondsPerDay) * SecondsPerDay
            + time.hour * 3600 + time.minute * 60 + time.second,
        date.ns % 1000)

\* variant: if next_date <= date
clock_rolls_when_not_after(next_date, date) == ~Before(date, next_date)

\* if next_date < date
clock_rolls(next_date, date) == Before(next_date, date)

clock_decode(json) ==
    LET response == Get(json, "clock")
    IN  IF response = None THEN Return(None)
        ELSE LET date == SecondsTimestamp(response.d["timestamp"])
                 next_time == ParseTime(response.d["next_change"].c)
                 next_date == Replace(date, next_time)
             IN  Return(
                   [t |-> "Clock",
                    date |-> date,
                    description |-> response.d["description"],
                    next_change |->
                        IF clock_rolls(next_date, date)
                        THEN EpochTimestamp(next_date.epoch + SecondsPerDay,
                                            next_date.ns)
                        ELSE next_date,
                    next_state |-> response.d["state"],
                    state |-> response.d["state"]])

to_time_range(value) == Converted("time_range", value)

\* convert(): int(obj) unless obj is None
convert(obj) ==
    IF obj = None THEN None
    ELSE IF obj.t = "int" THEN obj
    ELSE JNum(StrToInt(obj.c))

SessionKeys == <<"premarket", "open", "postmarket">>

calendar_decode(json) ==
    LET response == Get(json, "calendar")
        days == Item(response, "days")
        day == Item(days.value, "day")
        made == DataFrame(ensure_list(day.value))
        missing == {i \in 1..3 : SessionKeys[i] \notin made.value.columns}
        frame ==
            set_index(
                Assign(
                    Assign(
                        Assign(Assign(made.value, "date", "date", "date"),
                               "premarket", "premarket", "time_range"),
                        "open", "open", "time_range"),
                    "postmarket", "postmarket", "time_range"),
                "date")
    IN  IF response = None THEN Return(None)
        ELSE IF days.kind = "raise" THEN days
        ELSE IF day.kind = "raise" THEN day
        ELSE IF made.kind = "raise" THEN made
        ELSE IF "date" \notin made.value.columns THEN Raise(KeyError("date"))
        ELSE IF missing # {}
        THEN Raise(KeyError(SessionKeys[CHOOSE i \in missing :
                                            \A k \in missing : i <= k]))
        ELSE IF frame.kind = "raise" THEN frame
        ELSE Return([t |-> "Calendar",
                     days |-> frame.value,
                     year |-> convert(Get(response, "year")),
                     month |-> convert(Get(response, "month"))])

search_decode(json) ==
    LET response == Get(json, "securities")
        security == Item(response, "security")
        made == DataFrame(ensure_list(security.value))
    IN  IF response = None THEN Return(None)
        ELSE IF security.kind = "raise" THEN security
        ELSE IF made.kind = "raise" THEN made
        ELSE set_index(made.value, "symbol")

lookup_decode(json) ==
    LET response == Get(json, "securities")
        security == Item(response, "security")
        made == DataFrame(ensure_list(security.value))
    IN  IF response = None THEN Return(None)
        ELSE IF security.kind = "raise" THEN security
        ELSE IF made.kind = "raise" THEN made
        ELSE set_index(made.value, "symbol")

DecodeOf(ep, json) ==
    CASE ep = "quotes" -> quotes_decode(json)
      [] ep = "timesales" -> timesales_decode(json)
      [] ep = "option_chain" -> option_chain_decode(json)
      [] ep = "option_strikes" -> option_strikes_decode(json)
      [] ep = "option_expirations" -> option_expirations_decode(json)
      [] ep = "historical_pricing" -> historical_pricing_decode(json)
      [] ep = "clock" -> clock_decode(json)
      [] ep = "calendar" -> calendar_decode(json)
      [] ep = "search" -> search_decode(json)
      [] ep = "lookup" -> lookup_decode(json)

(***************************************************************************)
(* The arguments and the responses the model draws.                         *)
(***************************************************************************)
Chars(n, w) == ZeroPad(IntToStr(n), w)

Years == {2024, 2025}
Months == {1, 10, 12}
Days == {9, 31}

\* every supported form of Session.calendar's date argument
CalendarDates ==
    {PyDate(y, m, d) : y \in Years, m \in Months, d \in Days}
    \cup {PyText(Chars(y, 4)) : y \in Years}
    \cup {PyText(Chars(y, 4) \o <<"-">> \o Chars(m, 2)) : y \in Years, m \in Months}
    \cup {PyText(IsoFormat(PyDate(y, m, d))) : y \in Years, m \in Months, d \in Days}
    \cup {PySeq(<<y>>) : y \in Years}
    \cup {PySeq(<<y, m>>) : y \in Years, m \in Months}
    \cup {PyInt(y) : y \in Years}
    \cup {None}

Expiry == PyText(<<"2", "0", "2", "4", "-", "0", "1", "-", "1", "9">>)

\* a date argument: an ISO string or a date
Dates == {Expiry, PyDate(2024, 1, 19)}

ArgsOf(ep) ==
    CASE ep = "quotes" ->
           {[symbols |-> y] : y \in {<<"AAPL">>, <<"AAPL", "MSFT">>}}
      [] ep = "timesales" ->
           [symbol : {PyStr("AAPL")}, interval : {None, PyStr("1min")},
            start : {None} \cup Dates, end : {None} \cup Dates,
            session_filter : {None, PyStr("open")}]
      [] ep \in {"option_chain", "option_strikes"} ->
           [symbol : {PyStr("AAPL")}, expiration : Dates]
      [] ep = "option_expirations" -> [symbol : {PyStr("AAPL"), PyStr("MSFT")}]
      [] ep = "historical_pricing" ->
           [symbol : {PyStr("AAPL")}, interval : {None, PyStr("daily")},
            start : {None} \cup Dates, end : {None} \cup Dates]
      [] ep = "clock" -> {EmptyDict}
      [] ep = "calendar" -> [date : CalendarDates]
      [] ep = "search" ->
           [query : {PyStr("apple")},
            indexes : {None, PyBool(FALSE), PyBool(TRUE)}]
      [] ep = "lookup" ->
           [symbol : {None, PyStr("AAPL")},
            exchanges : {None, PySeq(<<"Q">>), PySeq(<<"Q", "N">>)},
            types : {None, PySeq(<<"stock">>), PySeq(<<"stock", "etf">>)}]

\* the key of the response's wrapper and the key of the records in it
WrapperKey(ep) ==
    CASE ep = "quotes" -> "quotes"
      [] ep = "timesales" -> "series"
      [] ep = "option_chain" -> "options"
      [] ep = "option_strikes" -> "strikes"
      [] ep = "option_expirations" -> "expirations"
      [] ep = "historical_pricing" -> "history"
      [] ep = "clock" -> "clock"
      [] ep = "calendar" -> "calendar"
      [] ep \in {"search", "lookup"} -> "securities"

InnerKey(ep) ==
    CASE ep = "quotes" -> "quote"
      [] ep = "timesales" -> "data"
      [] ep = "option_chain" -> "option"
      [] ep = "option_strikes" -> "strike"
      [] ep = "option_expirations" -> "date"
      [] ep = "historical_pricing" -> "day"
      [] ep = "calendar" -> "day"
      [] ep \in {"search", "lookup"} -> "security"

Day1 == PyText(<<"2", "0", "2", "4", "-", "0", "1", "-", "0", "1">>)
Day2 == PyText(<<"2", "0", "2", "4", "-", "0", "1", "-", "0", "2">>)

Hours(a, b) == JObj([start |-> PyText(a), end |-> PyText(b)])

\* the records (or scalars) an endpoint's response may hold
ItemsOf(ep) ==
    CASE ep = "quotes" ->
           {JObj([symbol |-> PyStr("AAPL"), last |-> JNum(1),
                  trade_date |-> JNum(1500)]),
            JObj([symbol |-> PyStr("AAPL240119C00100000"), last |-> JNum(2),
                  trade_date |-> JNum(2000), expiration_date |-> Expiry])}
      [] ep = "timesales" ->
           {JObj([timestamp |-> JNum(1704124740), price |-> JNum(1)]),
            JObj([timestamp |-> JNum(1704124800), price |-> JNum(2)])}
      [] ep = "option_chain" ->
           {JObj([symbol |-> PyStr("AAPL240119C00100000"), strike |-> JNum(100)]),
            JObj([symbol |-> PyStr("AAPL240119P00100000"), strike |-> JNum(100)])}
      [] ep = "option_strikes" -> {JNum(100), JNum(105)}
      [] ep = "option_expirations" -> {Expiry, Day1}
      [] ep = "historical_pricing" ->
           {JObj([date |-> Day1, close |-> JNum(1)]),
            JObj([date |-> Day2, close |-> JNum(2)])}
      [] ep = "calendar" ->
           {JObj([date |-> Day1, status |-> PyStr("closed"),
                  premarket |-> None, open |-> None, postmarket |-> None]),
            JObj([date |-> Day2, status |-> PyStr("open"),
                  premarket |-> Hours(<<"0", "7", ":", "0", "0">>,
                                      <<"0", "9", ":", "2", "4">>),
                  open |-> Hours(<<"0", "9", ":", "3", "0">>,
                                 <<"1", "6", ":", "0", "0">>),
                  postmarket |-> Hours(<<"1", "6", ":", "0", "0">>,
                                       <<"1", "9", ":", "5", "5">>)])}
      [] ep \in {"search", "lookup"} ->
           {JObj([symbol |-> PyStr("AAPL"), type |-> PyStr("stock")]),
            JObj([symbol |-> PyStr("SPX"), type |-> PyStr("index")])}

\* the sequences over S of length at most n
SeqsUpTo(S, n) == UNION {[1..k -> S] : k \in 0..n}

\* what the wrapper's record key may hold: one bare record or a list
InnersOf(ep) ==
    ItemsOf(ep) \cup {JList(l) : l \in SeqsUpTo(ItemsOf(ep), MaxRecords)}

Dict1(k, v) == JObj(k :> v)

\* the values under the wrapper key, when it is present and not null
WrappedOf(ep) ==
    CASE ep = "clock" ->
           {JObj([timestamp |-> JNum(ts), next_change |-> PyText(nc),
                  description |-> PyStr("Market"), state |-> PyStr(st),
                  next_state |-> PyStr(ns)]) :
              ts \in {1704067200, 1704124740, 1704124800, 1704153540},
              nc \in {<<"0", "0", ":", "0", "0", ":", "0", "0">>,
                      <<"1", "6", ":", "0", "0", ":", "0", "0">>,
                      <<"1", "6", ":", "0", "0">>,
                      <<"0", "9", ":", "3", "0">>,
                      <<"2", "3", ":", "5", "9", ":", "5", "9">>},
              st \in {"open", "closed"},
              ns \in {"postmarket", "open"}}
      [] ep = "calendar" ->
           {JObj([days |-> Dict1("day", i)] @@ ym) :
              i \in InnersOf(ep),
              ym \in {EmptyDict, [year |-> JNum(2024), month |-> JNum(1)]}}
      [] OTHER -> {JObj(EmptyDict)} \cup {Dict1(InnerKey(ep), i) : i \in InnersOf(ep)}

\* the bodies a response to the endpoint may carry: not JSON, the wrapper key
\* missing, the wrapper null, the wrapper present
BodiesOf(ep) ==
    {Text("not found"), JObj(EmptyDict), Dict1(WrapperKey(ep), None)}
    \cup {Dict1(WrapperKey(ep), w) : w \in WrappedOf(ep)}

Statuses == {199, 200, 299, 300, 404}

ReasonOf(status) ==
    CASE status = 199 -> "Informational"
      [] status = 200 -> "OK"
      [] status = 299 -> "Success"
      [] status = 300 -> "Multiple Choices"
      [] status = 404 -> "Not Found"

ResponsesOf(ep) ==
    {[status |-> st, reason |-> ReasonOf(st), body |-> b] :
       st \in Statuses, b \in BodiesOf(ep)}

(***************************************************************************)
(* The transport adapter and the session scope.                             *)
(***************************************************************************)
HttpError(response) ==
    [type |-> "HttpError", status |-> response.status,
     reason |-> response.reason, message |-> response.body]

\* raised by the transport: a connection fault, an unusable query, a body
\* that is not JSON, a close that fails
ClientError(what) == [type |-> "ClientError", what |-> what]

\* the transport takes a query that is a list of (name, value) pairs
WellFormed(params) ==
    \A i \in 1..Len(params) : params[i].t = "tuple" /\ Len(params[i].pair) = 2

\* variant: 200 <= response.status < 400
status_ok_below_400(status) == 200 <= status /\ status < 400

\* 200 <= response.status < 300
status_ok(status) == 200 <= status /\ status < 300

\* Session._request followed by the endpoint's decoder
request_result(ep, response) ==
    IF ~status_ok(response.status) THEN Raise(HttpError(response))
    ELSE IF response.body.t = "text" THEN Raise(ClientError("json"))
    ELSE DecodeOf(ep, response.body)

DecoderRuns(response) ==
    IF status_ok(response.status) /\ response.body.t # "text" THEN 1 ELSE 0

\* variant: the exception is re-raised before the close
close_only_on_success(result) == IF result.kind = "raise" THEN 0 ELSE 1

\* Session.__aexit__ awaits self.close() whatever the scope's body did
close_calls(result) == 1

\* Session.__aexit__: close, then re-raise the body's exception if any
aexit(result, closeRaises) ==
    IF closeRaises THEN Raise(ClientError("close")) ELSE result

Facades == {"AsyncClient", "SyncClient"}
Vias == {"Session"} \cup Facades

NoCall == [via |-> "", ep |-> "", args |-> EmptyDict]
NoRequest == [path |-> "", params |-> <<>>]
NoResponse == [status |-> 0, reason |-> "", body |-> None]

Init ==
    /\ pc = "idle"
    /\ call = NoCall
    /\ opened = 0
    /\ closed = 0
    /\ requests = 0
    /\ lateRequests = 0
    /\ req = NoRequest
    /\ resp = NoResponse
    /\ decodes = 0
    /\ body = Pending
    /\ closeFailed = FALSE
    /\ outcome = Pending

\* a caller starts an endpoint call: on a Session it holds, or through a
\* facade, which opens a Session of its own and enters its scope
Call(via, ep, args) ==
    /\ pc = "idle"
    /\ call' = [via |-> via, ep |-> ep, args |-> args]
    /\ opened' = IF via \in Facades THEN 1 ELSE 0
    /\ pc' = "body"
    /\ UNCHANGED <<closed, requests, lateRequests, req, resp, decodes, body,
                   closeFailed, outcome>>

AfterBody == IF call.via \in Facades THEN "exit" ELSE "done"

\* the Session method up to its await: marshal, then hand path and params
\* to the transport, which refuses a query that is not a list of pairs
Send ==
    /\ pc = "body"
    /\ LET m == MarshalOf(call.ep, call.args)
       IN  IF m.kind = "raise"
           THEN /\ body' = m
                /\ pc' = AfterBody
                /\ outcome' = IF call.via \in Facades THEN outcome ELSE m
                /\ UNCHANGED <<req, requests, lateRequests>>
           ELSE /\ req' = [path |-> m.path, params |-> m.params]
                /\ IF WellFormed(m.params)
                   THEN /\ requests' = requests + 1
                        /\ lateRequests' = lateRequests + (IF closed > 0 THEN 1 ELSE 0)
                        /\ pc' = "await"
                        /\ UNCHANGED <<body, outcome>>
                   ELSE /\ body' = Raise(ClientError("query"))
                        /\ pc' = AfterBody
                        /\ outcome' = IF call.via \in Facades THEN outcome
                                      ELSE Raise(ClientError("query"))
                        /\ UNCHANGED <<requests, lateRequests>>
    /\ UNCHANGED <<call, opened, closed, resp, decodes, closeFailed>>

\* the response arrives: status check, JSON, decoder
Respond(response) ==
    /\ pc = "await"
    /\ resp' = response
    /\ body' = request_result(call.ep, response)
    /\ decodes' = decodes + DecoderRuns(response)
    /\ pc' = AfterBody
    /\ outcome' = IF call.via \in Facades THEN outcome ELSE body'
    /\ UNCHANGED <<call, opened, closed, requests, lateRequests, req, closeFailed>>

Receive == pc = "await" /\ \E response \in ResponsesOf(call.ep) : Respond(response)

\* the request fails in the transport: no response
Fault ==
    /\ pc = "await"
    /\ body' = Raise(ClientError("connection"))
    /\ pc' = AfterBody
    /\ outcome' = IF call.via \in Facades THEN outcome ELSE body'
    /\ UNCHANGED <<call, opened, closed, requests, lateRequests, req, resp,
                   decodes, closeFailed>>

\* the facade's scope exits: Session.__aexit__
Exit(closeRaises) ==
    /\ pc = "exit"
    /\ closed' = closed + close_calls(body)
    /\ closeFailed' = (closeRaises /\ close_calls(body) > 0)
    /\ outcome' = aexit(body, closeFailed')
    /\ pc' = "done"
    /\ UNCHANGED <<call, opened, requests, lateRequests, req, resp, decodes, body>>

\* the caller has the outcome; the next call starts afresh
Finish ==
    /\ pc = "done"
    /\ pc' = "idle"
    /\ call' = NoCall
    /\ opened' = 0
    /\ closed' = 0
    /\ requests' = 0
    /\ lateRequests' = 0
    /\ req' = NoRequest
    /\ resp' = NoResponse
    /\ decodes' = 0
    /\ body' = Pending
    /\ closeFailed' = FALSE
    /\ outcome' = Pending

Next ==
    \/ \E via \in Vias, ep \in Endpoints : \E args \in ArgsOf(ep) : Call(via, ep, args)
    \/ Send
    \/ Receive
    \/ Fault
    \/ \E closeRaises \in BOOLEAN : Exit(closeRaises)
    \/ Finish

Spec == Init /\ [][Next]_vars

(***************************************************************************)
(* The properties.                                                          *)
(***************************************************************************)
Ended == pc \in {"exit", "done"}

Succeeded(status) == status \in 200..299

\* a 2xx response with a JSON body was received and the Session method is over
Decoded == Ended /\ Succeeded(resp.status) /\ resp.body.t = "dict"

\* C1: every facade call opens exactly one Session and closes it exactly once
\* before the caller has the outcome, however the call ends; nothing is
\* requested on the Session after it is closed.
C1_SessionClosedOnce ==
    /\ opened <= 1
    /\ closed <= 1
    /\ lateRequests = 0
    /\ call.via \in Facades =>
         /\ opened = 1
         /\ pc \in {"body", "await", "exit"} => closed = 0
         /\ pc = "done" => closed = 1

\* a facade call whose decoder raised after a 2xx response, closed once
C1_Witness ==
    /\ pc = "done"
    /\ call.via = "AsyncClient"
    /\ Succeeded(resp.status)
    /\ body.kind = "raise"
    /\ body.error.type = "KeyError"
    /\ closed = 1

NoLookupArgument ==
    /\ call.ep = "lookup"
    /\ call.args.symbol = None
    /\ call.args.exchanges = None
    /\ call.args.types = None

\* C2: lookup with none of symbol, exchanges, types raises ValueError (the
\* invalid-argument error) and no HTTP request is issued at any point of the
\* call, through Session, AsyncClient or SyncClient; the facade hands that
\* error to its caller when closing the Session did not itself fail.
C2_LookupNeedsArgument ==
    NoLookupArgument =>
      /\ requests = 0
      /\ req = NoRequest
      /\ Ended => body = Raise([type |-> "ValueError"])
      /\ (pc = "done" /\ ~closeFailed) => outcome = Raise([type |-> "ValueError"])

C2_Witness ==
    /\ pc = "done"
    /\ NoLookupArgument
    /\ call.via = "SyncClient"
    /\ outcome = Raise([type |-> "ValueError"])
    /\ requests = 0

\* C3: a response with a status outside 200..299 ends the Session method with
\* an HttpError carrying the status, the reason and the literal body; no
\* decoder runs and no second request is issued.  A status in 200..299 never
\* gives an HttpError.
C3_NonSuccessRaisesHttpError ==
    /\ requests <= 1
    /\ (Ended /\ resp.status # 0) =>
         /\ requests = 1
         /\ ~Succeeded(resp.status) =>
              /\ body = Raise([type |-> "HttpError", status |-> resp.status,
                               reason |-> resp.reason, message |-> resp.body])
              /\ decodes = 0
              /\ (pc = "done" /\ ~closeFailed) => outcome = body
         /\ Succeeded(resp.status) =>
              ~(body.kind = "raise" /\ body.error.type = "HttpError")

\* 404 "not found" through the facade
C3_Witness ==
    /\ pc = "done"
    /\ call.via = "AsyncClient"
    /\ resp.status = 404
    /\ resp.body = Text("not found")
    /\ outcome = Raise([type |-> "HttpError", status |-> 404,
                        reason |-> "Not Found", message |-> Text("not found")])
    /\ decodes = 0

\* C4: when the body of the session scope failed with E and the close failed
\* with C, the caller receives E; C reaches the caller only when the body did
\* not fail.
C4_BodyErrorNotMasked ==
    (pc = "done" /\ call.via \in Facades) =>
      /\ body.kind = "raise" => outcome = body
      /\ (outcome.kind = "raise" /\ outcome.error = ClientError("close")) =>
           body.kind # "raise"

\* the year a reader takes from the date argument; 0 when there is none
HumanYear(date) ==
    CASE date.t = "date" -> date.year
      [] date.t = "str" -> StrToInt(SubSeq(date.c, 1, 4))
      [] date.t = "seq" -> date.items[1]
      [] date.t = "int" -> date.n
      [] date.t = "None" -> 0

\* the month a reader takes from the date argument; 0 when there is none
HumanMonth(date) ==
    CASE date.t = "date" -> date.month
      [] date.t = "str" ->
           IF Len(date.c) >= 7 THEN StrToInt(SubSeq(date.c, 6, 7)) ELSE 0
      [] date.t = "seq" -> IF Len(date.items) >= 2 THEN date.items[2] ELSE 0
      [] date.t = "int" -> 0
      [] date.t = "None" -> 0

Requested == pc \in {"await", "exit", "done"}

\* C5: for every supported form of the date argument Session.calendar sends
\* the year and the month a reader takes from it as separate parameters, each
\* a numeral; month is sent exactly when the argument has a month (never as
\* zero or empty), and neither is sent when the argument is absent.
C5_CalendarYearMonth ==
    (call.ep = "calendar" /\ Requested) =>
      LET y == HumanYear(call.args.date)
          m == HumanMonth(call.args.date)
          names == (IF y # 0 THEN <<"year">> ELSE <<>>)
                       \o (IF m # 0 THEN <<"month">> ELSE <<>>)
          p == req.params
      IN  /\ req.path = "markets/calendar"
          /\ Len(p) = Len(names)
          /\ \A i \in 1..Len(p) :
               /\ p[i].t = "tuple"
               /\ Len(p[i].pair) = 2
               /\ p[i].pair[1] = PyStr(names[i])
               /\ p[i].pair[2].t = "str"
               /\ IsNumeral(p[i].pair[2].c)
               /\ StrToInt(p[i].pair[2].c) = (IF names[i] = "year" THEN y ELSE m)

\* a "YYYY-MM-DD" argument sent as year and month
C5_Witness ==
    /\ call.ep = "calendar"
    /\ pc = "await"
    /\ call.args.date.t = "str"
    /\ Len(call.args.date.c) = 10
    /\ Len(req.params) = 2

ClockReturned ==
    /\ call.ep = "clock"
    /\ Decoded
    /\ body.kind = "return"
    /\ body.value.t = "Clock"

Upstream == resp.body.d["clock"].d

\* C6: Clock.next_state is the next state upstream reports and Clock.state the
\* current one; when upstream's two states differ, so do the Clock's.
C6_NextStateFromUpstream ==
    ClockReturned =>
      /\ body.value.state = Upstream["state"]
      /\ body.value.next_state = Upstream["next_state"]
      /\ Upstream["next_state"] # Upstream["state"] =>
           body.value.next_state # body.value.state

\* the seconds since midnight a reader takes from HH:MM or HH:MM:SS
HumanSeconds(s) ==
    StrToInt(SubSeq(s, 1, 2)) * 3600 + StrToInt(SubSeq(s, 4, 5)) * 60
        + (IF Len(s) >= 8 THEN StrToInt(SubSeq(s, 7, 8)) ELSE 0)

\* C7: next_change is the snapshot's calendar day at the time of day of the
\* response's next_change, one day later exactly when that is strictly before
\* the snapshot; it is never before the snapshot and less than a day after it.
\* 2024-01-01T15:59:00 with 16:00:00 gives 2024-01-01T16:00:00, and
\* 2024-01-01T23:59:00 with 00:00:00 gives 2024-01-02T00:00:00.
C7_ClockNextChange ==
    ClockReturned =>
      LET snap == Upstream["timestamp"].n
          at == snap - (snap % SecondsPerDay)
                    + HumanSeconds(Upstream["next_change"].c)
          next == body.value.next_change.epoch
      IN  /\ body.value.date.epoch = snap
          /\ body.value.date.ns = 0
          /\ body.value.next_change.ns = 0
          /\ next = (IF at < snap THEN at + SecondsPerDay ELSE at)
          /\ snap <= next
          /\ next < snap + SecondsPerDay
          /\ (snap = 1704124740
                /\ Upstream["next_change"].c = <<"1", "6", ":", "0", "0", ":", "0", "0">>)
               => next = 1704124800
          /\ (snap = 1704153540
                /\ Upstream["next_change"].c = <<"0", "0", ":", "0", "0", ":", "0", "0">>)
               => next = 1704153600

\* the snapshot 23:59:00 with 00:00:00 rolled over to the next day
C7_Witness ==
    /\ ClockReturned
    /\ Upstream["timestamp"].n = 1704153540
    /\ Upstream["next_change"].c = <<"0", "0", ":", "0", "0", ":", "0", "0">>
    /\ body.value.next_change.epoch = 1704153600

WrapperMissing ==
    \/ WrapperKey(call.ep) \notin DOMAIN resp.body.d
    \/ resp.body.d[WrapperKey(call.ep)] = None

\* the wrapper is present and holds an empty list of records
EmptyRecordList ==
    /\ call.ep # "clock"
    /\ ~WrapperMissing
    /\ LET w == resp.body.d[WrapperKey(call.ep)]
           holder == IF call.ep = "calendar" THEN w.d["days"] ELSE w
       IN  /\ InnerKey(call.ep) \in DOMAIN holder.d
           /\ holder.d[InnerKey(call.ep)].t = "list"
           /\ Len(holder.d[InnerKey(call.ep)].l) = 0

EmptyTable(v) ==
    CASE v.t = "DataFrame" -> Len(v.rows) = 0
      [] v.t = "Series" -> Len(v.values) = 0
      [] v.t = "Calendar" -> Len(v.days.rows) = 0
      [] OTHER -> FALSE

\* C8: for every decoder a 2xx response whose wrapper key is missing or null
\* gives "no data" and never an error, and one whose wrapper holds an empty
\* list of records gives an empty table, neither "no data" nor an error.
C8_NoDataVersusEmptyTable ==
    Decoded =>
      /\ WrapperMissing => body = Return(None)
      /\ EmptyRecordList => (body.kind = "return" /\ EmptyTable(body.value))

\* the first half of C8 on its own
C8_MissingWrapperIsNoData == (Decoded /\ WrapperMissing) => body = Return(None)

\* C9: Session.search with the indexes flag set sends q and one (name, value)
\* pair indexes=true; with the flag unset it sends q alone.
C9_SearchIndexesPair ==
    (call.ep = "search" /\ Requested) =>
      LET p == req.params
      IN  /\ Len(p) >= 1
          /\ p[1] = PyTuple(<<PyStr("q"), call.args.query>>)
          /\ IF call.args.indexes = PyBool(TRUE)
             THEN /\ Len(p) = 2
                  /\ p[2].t = "tuple"
                  /\ p[2].pair = <<PyStr("indexes"), PyStr("true")>>
             ELSE Len(p) = 1

QuotePresent ==
    /\ call.ep = "quotes"
    /\ Decoded
    /\ ~WrapperMissing
    /\ "quote" \in DOMAIN resp.body.d["quotes"].d

Quote == resp.body.d["quotes"].d["quote"]

\* C10: Session.quotes decodes a bare quote record r to the same one-row
\* result as the one-element list [r], and a list of n >= 1 records to n rows
\* indexed by the records' symbols in upstream order.
C10_BareRecordAsOneElementList ==
    QuotePresent =>
      LET records == IF Quote.t = "dict" THEN <<Quote>> ELSE Quote.l
      IN  Len(records) >= 1 =>
            /\ body.kind = "return"
            /\ body.value.t = "DataFrame"
            /\ Len(body.value.rows) = Len(records)
            /\ Len(body.value.index) = Len(records)
            /\ body.value.index_name = "symbol"
            /\ \A i \in 1..Len(records) :
                 body.value.index[i] = records[i].d["symbol"]
            /\ Quote.t = "dict" =>
                 body = quotes_decode(
                            Dict1("quotes", Dict1("quote", JList(<<Quote>>))))

\* a bare record decoded to one row
C10_Witness ==
    /\ QuotePresent
    /\ Quote.t = "dict"
    /\ pc = "done"
    /\ body.kind = "return"
    /\ Len(body.value.rows) = 1

=============================================================================
